---- MODULE Spec2Model ----
(***************************************************************************)
(* Model of package meta of cpfs: the write-back file storage FileStorage   *)
(* with its cache, dirty set, backing directory and background sync loop;  *)
(* the in-memory metadata store MemoryStore with its path -> *Metadata map *)
(* and inode counter; and the path normaliser the two share.               *)
(* Each component has its own specification; the variables of the          *)
(* components that take no part in a specification keep the value Absent.  *)
(*                                                                         *)
(* Strings are sequences of one-character strings, so that the string      *)
(* functions of the code (ReplaceAll, TrimPrefix, HasPrefix, path.Clean,   *)
(* filepath.Join) are computed character by character as Go computes them. *)
(* The platform is a unix one: filepath.Separator is "/" .                 *)
(***************************************************************************)
EXTENDS Integers, Sequences, FiniteSets, TLC

\* ------------------------------------------------------------------ bounds

\* Longest key string drawn in the key-mapping specification SpecKeys.
MaxKeyLen == 3
\* Number of distinct byte values a caller may save.
MaxData == 2
\* Number of operations the callers start in one run.
MaxOps == 3
\* Number of concurrent callers.
NumCallers == 2
\* Number of operations a single caller of the metadata store starts in one
\* run, and the number that concurrent callers start between them.
MaxMetaOps == 4
MaxConcOps == 3
\* Last reading of the clock.
MaxTime == 2
\* Longest string normalised in the normaliser's specification SpecNorm.
MaxPathLen == 5

\* ----------------------------------------------------------------- strings

SLASH == "/"
BACKSLASH == "\\"
DOT == "."
\* the byte 0
NUL == "NUL"

EmptyStr == << >>

\* strings.HasPrefix
HasPrefix(s, prefix) ==
    /\ Len(s) >= Len(prefix)
    /\ SubSeq(s, 1, Len(prefix)) = prefix

\* strings.TrimPrefix
TrimPrefix(s, prefix) ==
    IF HasPrefix(s, prefix) THEN SubSeq(s, Len(prefix) + 1, Len(s)) ELSE s

\* strings.ReplaceAll for one-character old and new
ReplaceAll(s, old, new) ==
    [i \in 1..Len(s) |-> IF s[i] = old THEN new ELSE s[i]]

\* strings.ContainsAny(s, chars) for a set of characters
ContainsAny(s, chars) == \E i \in 1..Len(s) : s[i] \in chars

\* The segments of s between separators (strings.Split(s, "/")).
RECURSIVE SplitFrom(_, _, _)
SplitFrom(s, i, cur) ==
    IF i > Len(s) THEN << cur >>
    ELSE IF s[i] = SLASH THEN << cur >> \o SplitFrom(s, i + 1, EmptyStr)
    ELSE SplitFrom(s, i + 1, Append(cur, s[i]))

Split(s) == SplitFrom(s, 1, EmptyStr)

\* strings.Join(segs, "/")
RECURSIVE JoinSegs(_)
JoinSegs(segs) ==
    IF Len(segs) = 0 THEN EmptyStr
    ELSE IF Len(segs) = 1 THEN segs[1]
    ELSE segs[1] \o << SLASH >> \o JoinSegs(Tail(segs))

DotSeg == << DOT >>
DotDotSeg == << DOT, DOT >>

\* The lexical resolution loop of path.Clean: the stack of kept segments
\* after reading segs. Empty and "." segments are dropped; ".." removes the
\* last kept segment, is dropped at the root of a rooted path, and is kept
\* at the front of a relative one.
RECURSIVE Resolve(_, _, _)
Resolve(segs, out, rooted) ==
    IF Len(segs) = 0 THEN out
    ELSE LET seg == Head(segs)
             rest == Tail(segs)
         IN  IF seg = EmptyStr \/ seg = DotSeg THEN Resolve(rest, out, rooted)
             ELSE IF seg = DotDotSeg THEN
                 IF Len(out) > 0 /\ out[Len(out)] # DotDotSeg
                 THEN Resolve(rest, SubSeq(out, 1, Len(out) - 1), rooted)
                 ELSE IF rooted THEN Resolve(rest, out, rooted)
                 ELSE Resolve(rest, Append(out, seg), rooted)
             ELSE Resolve(rest, Append(out, seg), rooted)

\* path.Clean (and filepath.Clean where the separator is "/")
Clean(p) ==
    IF p = EmptyStr THEN << DOT >>
    ELSE LET rooted == p[1] = SLASH
             out == JoinSegs(Resolve(Split(p), << >>, rooted))
         IN  IF rooted THEN << SLASH >> \o out
             ELSE IF out = EmptyStr THEN << DOT >>
             ELSE out

\* filepath.Join(a, b): the non-empty elements joined by the separator, cleaned
Join(a, b) ==
    IF a = EmptyStr /\ b = EmptyStr THEN EmptyStr
    ELSE IF a = EmptyStr THEN Clean(b)
    ELSE IF b = EmptyStr THEN Clean(a)
    ELSE Clean(a \o << SLASH >> \o b)

\* ------------------------------------------------------- path normalisation

normalizePathKeepsRelative(p) ==
    LET p1 == ReplaceAll(p, BACKSLASH, SLASH)
        p2 == TrimPrefix(p1, << DOT, SLASH >>)
        p4 == Clean(p2)
    IN  IF p4 = << DOT >> \/ p4 = EmptyStr THEN << SLASH >> ELSE p4

normalizePathCleansFirst(p) ==
    LET p1 == TrimPrefix(p, << DOT, SLASH >>)
        p2 == IF ~HasPrefix(p1, << SLASH >>) THEN << SLASH >> \o p1 ELSE p1
        p3 == Clean(p2)
        p4 == ReplaceAll(p3, BACKSLASH, SLASH)
    IN  IF p4 = << DOT >> \/ p4 = EmptyStr THEN << SLASH >> ELSE p4

normalizePath(p) ==
    LET p1 == ReplaceAll(p, BACKSLASH, SLASH)
        p2 == TrimPrefix(p1, << DOT, SLASH >>)
        p3 == IF ~HasPrefix(p2, << SLASH >>) THEN << SLASH >> \o p2 ELSE p2
        p4 == Clean(p3)
    IN  IF p4 = << DOT >> \/ p4 = EmptyStr THEN << SLASH >> ELSE p4

RootKey == << SLASH >>

\* ------------------------------------------------------------ configuration

\* StorageConfig.RootDir: a cleaned absolute directory, as os.MkdirTemp gives
RootDir == << SLASH, "r" >>

\* ------------------------------------------------------ key <-> location

validatePathMissesNul(path) ==
    IF path = EmptyStr THEN "empty"
    ELSE IF ~HasPrefix(Clean(Join(RootDir, path)), RootDir) THEN "escape"
    ELSE "ok"

\* validatePath: "ok" or the reason of the error
validatePath(path) ==
    IF path = EmptyStr THEN "empty"
    ELSE IF ContainsAny(path, {NUL}) THEN "invalid"
    ELSE IF ~HasPrefix(Clean(Join(RootDir, path)), RootDir) THEN "escape"
    ELSE "ok"

\* keyToPath: [err, path]
keyToPath(key) ==
    LET k == TrimPrefix(key, << SLASH >>)
        v == validatePath(k)
    IN  IF v # "ok" THEN [err |-> v, path |-> EmptyStr]
        ELSE [err |-> "ok", path |-> Join(RootDir, k)]

\* The call the operations make: fs.keyToPath(strings.TrimPrefix(key, "/"))
PathOfKey(key) == keyToPath(TrimPrefix(key, << SLASH >>))

\* pathToKey
pathToKey(path) ==
    LET k1 == TrimPrefix(path, RootDir)
        k2 == TrimPrefix(k1, << SLASH >>)
    IN  << SLASH >> \o ReplaceAll(k2, SLASH, SLASH)

\* ------------------------------------------------------------------ inputs

Data == 1..MaxData
\* What a file holds after a write that failed midway (os.WriteFile truncates
\* the file before it writes).
Truncated == 0

Callers == 1..NumCallers

\* The key strings the callers of the storage specification pass: the keys
\* of the tests in their spellings, and the keys the code has to reject.
RawKeys ==
    { << >>, << SLASH >>, << "a", SLASH, DOT, DOT >>,
      << SLASH, "a" >>, << BACKSLASH, SLASH, "a", SLASH >>,
      << DOT, DOT, SLASH, "b" >>,
      << "a", NUL >> }

\* The characters of the key strings of SpecKeys.
KeyChars == { "a", SLASH, BACKSLASH, DOT, NUL }

RECURSIVE StringsOfLen(_)
StringsOfLen(n) ==
    IF n = 0 THEN { EmptyStr }
    ELSE { Append(s, c) : s \in StringsOfLen(n - 1), c \in KeyChars }

AllKeyStrings == UNION { StringsOfLen(n) : n \in 0..MaxKeyLen }

\* normalizePath and the key's location, tabulated over the key strings
\* and the keys of the model
NormTable == [r \in RawKeys \cup AllKeyStrings |-> normalizePath(r)]
Norm(raw) == NormTable[raw]

AllKeys == { NormTable[r] : r \in RawKeys \cup AllKeyStrings }
LocTable == [k \in AllKeys |-> PathOfKey(k)]
Loc(key) == LocTable[key]

\* ------------------------------------------------------------------- state

VARIABLES
    inputs,   \* the key strings the callers pass in this run
    callers,  \* the callers of this run
    cache,    \* FileStorage.cache: key -> bytes
    dirty,    \* FileStorage.dirty: the keys whose flag is set
    disk,     \* the regular files under RootDir: path -> bytes
    stopped,  \* stopCh is closed
    bg,       \* syncLoop: "loop" or "done"
    pc,       \* where each caller is in its operation
    ioOk,     \* the environment: TRUE when writes and removals cannot fail
    nops,     \* operations started so far
    last,     \* the operation that returned last, and what it returned
    hist,     \* per key, the last Save or Delete called on it, and whether a
              \* Load of the key was in flight when it was called
    closeSnap \* the dirty cached keys and their bytes when Close was called

storageVars == << inputs, callers, cache, dirty, disk, stopped, bg, pc, ioOk,
                  nops, last, hist, closeSnap >>

VARIABLES
    mdata,    \* MemoryStore.data: normalised path -> pointer to a Metadata
    heap,     \* the Metadata records there are: pointer -> record
    inodes,   \* MemoryStore.inodes
    now,      \* the reading of the clock (time.Now)
    mpc,      \* where each caller of the metadata store is in its operation
    mops,     \* metadata operations started so far
    mlast,    \* the metadata operation that returned last, and its result
    assigned, \* the inodes given out by Create and Mkdir, in order
    conc      \* the creations of one path that all callers started together

metaVars == << mdata, heap, inodes, now, mpc, mops, mlast, assigned, conc >>

VARIABLES
    np,       \* the string given to the normaliser
    nres      \* what normalizePath returned, call after call

normVars == << np, nres >>

vars == << storageVars, metaVars, normVars >>

\* The value of the variables of a component that is not part of a run
Absent == "absent"

NoStorage ==
    /\ inputs = Absent /\ callers = Absent /\ cache = Absent /\ dirty = Absent
    /\ disk = Absent /\ stopped = Absent /\ bg = Absent /\ pc = Absent
    /\ ioOk = Absent /\ nops = Absent /\ last = Absent /\ hist = Absent
    /\ closeSnap = Absent

NoMeta ==
    /\ mdata = Absent /\ heap = Absent /\ inodes = Absent /\ now = Absent
    /\ mpc = Absent /\ mops = Absent /\ mlast = Absent /\ assigned = Absent
    /\ conc = Absent

NoNorm == np = Absent /\ nres = Absent

\* f with x mapped to v, x added to its domain when new
Put(f, x, v) == [y \in DOMAIN f \cup {x} |-> IF y = x THEN v ELSE f[y]]
\* f without x
Drop(f, x) == [y \in DOMAIN f \ {x} |-> f[y]]

EmptyMap == [y \in {} |-> 0]

Idle == [at |-> "idle"]

Ret(op, key, err, val, touched) ==
    [op |-> op, key |-> key, err |-> err, val |-> val, touched |-> touched]

\* The normalised keys of a set of key strings that map to a location
ValidKeys(in) ==
    { k \in { Norm(r) : r \in in } : Loc(k).err = "ok" }

\* NewFileStorage: the files found under RootDir are loaded into the cache
\* under pathToKey of their path, none dirty; the sync loop is started.
InitWith(in, cs) ==
    /\ inputs = in
    /\ callers = cs
    /\ \E files \in SUBSET { Loc(k).path : k \in ValidKeys(in) } :
         /\ disk \in [files -> {1}]
         /\ cache = [k \in { pathToKey(p) : p \in files } |->
                        disk[CHOOSE p \in files : pathToKey(p) = k]]
    /\ dirty = {}
    /\ stopped = FALSE
    /\ bg = "loop"
    /\ pc = [c \in Callers |-> Idle]
    /\ ioOk = TRUE
    /\ nops = 0
    /\ last = Ret("none", EmptyStr, "ok", 0, {})
    /\ hist = EmptyMap
    /\ closeSnap = EmptyMap
    /\ NoMeta
    /\ NoNorm

Init == InitWith(RawKeys, Callers)

\* The callers are interchangeable: an operation is started by the first
\* caller that is in none.
CanStart(c) ==
    /\ c \in callers
    /\ pc[c] = Idle
    /\ \A b \in callers : b < c => pc[b] # Idle
    /\ nops < MaxOps

\* A Load of key has left the cache check behind and has not yet returned.
LoadInFlight(key) ==
    \E b \in Callers : pc[b].at \in { "loadRead", "loadFill" } /\ pc[b].key = key

\* ---------------------------------------------------------------- Save

SaveKeepsOld(c, raw, data) ==
    /\ CanStart(c)
    /\ nops' = nops + 1
    /\ LET key == Norm(raw)
           loc == Loc(key)
       IN  IF raw = EmptyStr \/ key = RootKey \/ loc.err # "ok"
           THEN /\ last' = Ret("Save", key,
                               IF raw = EmptyStr THEN "empty"
                               ELSE IF key = RootKey THEN "root" ELSE loc.err,
                               0, {})
                /\ UNCHANGED << cache, dirty, hist >>
           ELSE /\ cache' = IF key \in DOMAIN cache THEN cache ELSE Put(cache, key, data)
                /\ dirty' = dirty \cup {key}
                /\ hist' = Put(hist, key, [kind |-> "saved", val |-> data, ok |-> TRUE,
                                 overlap |-> LoadInFlight(key)])
                /\ last' = Ret("Save", key, "ok", 0, {})
    /\ UNCHANGED << inputs, callers, disk, stopped, bg, pc, ioOk, closeSnap >>
    /\ UNCHANGED << metaVars, normVars >>

SaveMarksDirtyFirst(c, raw, data) ==
    /\ CanStart(c)
    /\ nops' = nops + 1
    /\ LET key == Norm(raw)
           loc == Loc(key)
       IN  IF raw = EmptyStr \/ key = RootKey \/ loc.err # "ok"
           THEN /\ last' = Ret("Save", key,
                               IF raw = EmptyStr THEN "empty"
                               ELSE IF key = RootKey THEN "root" ELSE loc.err,
                               0, {})
                /\ dirty' = dirty \cup {key}
                /\ UNCHANGED << cache, hist >>
           ELSE /\ cache' = Put(cache, key, data)
                /\ dirty' = dirty \cup {key}
                /\ hist' = Put(hist, key, [kind |-> "saved", val |-> data, ok |-> TRUE,
                                 overlap |-> LoadInFlight(key)])
                /\ last' = Ret("Save", key, "ok", 0, {})
    /\ UNCHANGED << inputs, callers, disk, stopped, bg, pc, ioOk, closeSnap >>
    /\ UNCHANGED << metaVars, normVars >>

Save(c, raw, data) ==
    /\ CanStart(c)
    /\ nops' = nops + 1
    /\ LET key == Norm(raw)
           loc == Loc(key)
       IN  IF raw = EmptyStr \/ key = RootKey \/ loc.err # "ok"
           THEN /\ last' = Ret("Save", key,
                               IF raw = EmptyStr THEN "empty"
                               ELSE IF key = RootKey THEN "root" ELSE loc.err,
                               0, {})
                /\ UNCHANGED << cache, dirty, hist >>
           ELSE /\ cache' = Put(cache, key, data)
                /\ dirty' = dirty \cup {key}
                /\ hist' = Put(hist, key, [kind |-> "saved", val |-> data, ok |-> TRUE,
                                 overlap |-> LoadInFlight(key)])
                /\ last' = Ret("Save", key, "ok", 0, {})
    /\ UNCHANGED << inputs, callers, disk, stopped, bg, pc, ioOk, closeSnap >>
    /\ UNCHANGED << metaVars, normVars >>

\* ---------------------------------------------------------------- Load

\* Load up to the release of the read lock: a cache hit returns; a miss
\* maps the key and goes on to read the file without holding the lock.
LoadCheck(c, raw) ==
    /\ CanStart(c)
    /\ nops' = nops + 1
    /\ LET key == Norm(raw)
           loc == Loc(key)
       IN  IF key \in DOMAIN cache
           THEN /\ last' = Ret("Load", key, "ok", cache[key], {})
                /\ pc' = pc
           ELSE IF loc.err # "ok"
           THEN /\ last' = Ret("Load", key, loc.err, 0, {})
                /\ pc' = pc
           ELSE /\ pc' = [pc EXCEPT ![c] = [at |-> "loadRead", key |-> key]]
                /\ last' = last
    /\ UNCHANGED << inputs, callers, cache, dirty, disk, stopped, bg, ioOk,
                    hist, closeSnap >>
    /\ UNCHANGED << metaVars, normVars >>

\* os.ReadFile, outside the lock
LoadRead(c) ==
    /\ pc[c].at = "loadRead"
    /\ LET key == pc[c].key
           path == Loc(key).path
       IN  IF path \notin DOMAIN disk
           THEN /\ last' = Ret("Load", key, "notfound", 0, {path})
                /\ pc' = [pc EXCEPT ![c] = Idle]
           ELSE /\ pc' = [pc EXCEPT ![c] =
                            [at |-> "loadFill", key |-> key, data |-> disk[path]]]
                /\ last' = last
    /\ UNCHANGED << inputs, callers, cache, dirty, disk, stopped, bg, ioOk, nops,
                    hist, closeSnap >>
    /\ UNCHANGED << metaVars, normVars >>

\* the cache is filled with what was read, under the write lock
LoadFill(c) ==
    /\ pc[c].at = "loadFill"
    /\ cache' = Put(cache, pc[c].key, pc[c].data)
    /\ last' = Ret("Load", pc[c].key, "ok", pc[c].data,
                   {Loc(pc[c].key).path})
    /\ pc' = [pc EXCEPT ![c] = Idle]
    /\ UNCHANGED << inputs, callers, dirty, disk, stopped, bg, ioOk, nops,
                    hist, closeSnap >>
    /\ UNCHANGED << metaVars, normVars >>

\* -------------------------------------------------------------- Delete

DeleteClearsCache(c, raw) ==
    /\ CanStart(c)
    /\ nops' = nops + 1
    /\ LET key == Norm(raw)
           loc == Loc(key)
       IN  /\ cache' = EmptyMap
           /\ dirty' = dirty \cup {key}
           /\ IF loc.err # "ok"
              THEN /\ last' = Ret("Delete", key, loc.err, 0, {})
                   /\ hist' = Put(hist, key, [kind |-> "deleted", val |-> 0, ok |-> FALSE,
                                 overlap |-> LoadInFlight(key)])
                   /\ disk' = disk
              ELSE \/ /\ loc.path \in DOMAIN disk => ioOk
                      /\ disk' = Drop(disk, loc.path)
                      /\ hist' = Put(hist, key, [kind |-> "deleted", val |-> 0, ok |-> TRUE,
                                 overlap |-> LoadInFlight(key)])
                      /\ last' = Ret("Delete", key, "ok", 0, {loc.path})
                   \/ /\ loc.path \in DOMAIN disk
                      /\ ~ioOk
                      /\ disk' = disk
                      /\ hist' = Put(hist, key, [kind |-> "deleted", val |-> 0, ok |-> FALSE,
                                 overlap |-> LoadInFlight(key)])
                      /\ last' = Ret("Delete", key, "io", 0, {loc.path})
    /\ UNCHANGED << inputs, callers, stopped, bg, pc, ioOk, closeSnap >>
    /\ UNCHANGED << metaVars, normVars >>

\* os.Remove of a missing file gives a not-exist error, which Delete ignores;
\* the removal of an existing file fails only when the environment fails.
Delete(c, raw) ==
    /\ CanStart(c)
    /\ nops' = nops + 1
    /\ LET key == Norm(raw)
           loc == Loc(key)
       IN  /\ cache' = Drop(cache, key)
           /\ dirty' = dirty \cup {key}
           /\ IF loc.err # "ok"
              THEN /\ last' = Ret("Delete", key, loc.err, 0, {})
                   /\ hist' = Put(hist, key, [kind |-> "deleted", val |-> 0, ok |-> FALSE,
                                 overlap |-> LoadInFlight(key)])
                   /\ disk' = disk
              ELSE \/ /\ loc.path \in DOMAIN disk => ioOk
                      /\ disk' = Drop(disk, loc.path)
                      /\ hist' = Put(hist, key, [kind |-> "deleted", val |-> 0, ok |-> TRUE,
                                 overlap |-> LoadInFlight(key)])
                      /\ last' = Ret("Delete", key, "ok", 0, {loc.path})
                   \/ /\ loc.path \in DOMAIN disk
                      /\ ~ioOk
                      /\ disk' = disk
                      /\ hist' = Put(hist, key, [kind |-> "deleted", val |-> 0, ok |-> FALSE,
                                 overlap |-> LoadInFlight(key)])
                      /\ last' = Ret("Delete", key, "io", 0, {loc.path})
    /\ UNCHANGED << inputs, callers, stopped, bg, pc, ioOk, closeSnap >>
    /\ UNCHANGED << metaVars, normVars >>

\* ---------------------------------------------------------------- List

ListSkipsDirty(c, raw) ==
    /\ CanStart(c)
    /\ nops' = nops + 1
    /\ LET prefix == Norm(raw)
       IN  last' = Ret("List", prefix, "ok",
                       { key \in DOMAIN cache \ dirty : HasPrefix(key, prefix) }, {})
    /\ UNCHANGED << inputs, callers, cache, dirty, disk, stopped, bg, pc, ioOk,
                    hist, closeSnap >>
    /\ UNCHANGED << metaVars, normVars >>

\* List, under the read lock: the keys of the cache that start with the
\* normalised prefix, returned in val.
List(c, raw) ==
    /\ CanStart(c)
    /\ nops' = nops + 1
    /\ LET prefix == Norm(raw)
       IN  last' = Ret("List", prefix, "ok",
                       { key \in DOMAIN cache : HasPrefix(key, prefix) }, {})
    /\ UNCHANGED << inputs, callers, cache, dirty, disk, stopped, bg, pc, ioOk,
                    hist, closeSnap >>
    /\ UNCHANGED << metaVars, normVars >>

\* ---------------------------------------------------------------- Sync

\* The dirty keys Sync finds in the cache
DirtyCached == { k \in DOMAIN cache : k \in dirty }

\* The files after the keys of written were written from the cache, and the
\* file of each key of cut was truncated by a write that failed.
Written(written, cut) ==
    [p \in DOMAIN disk \cup { Loc(k).path : k \in written \cup cut } |->
        IF \E k \in written : Loc(k).path = p
        THEN cache[CHOOSE k \in written : Loc(k).path = p]
        ELSE IF \E k \in cut : Loc(k).path = p THEN Truncated
        ELSE disk[p]]

\* The outcomes of one run of Sync's loop. The map is ranged over in an
\* order Go does not fix: the keys of some set are written and their flags
\* cleared; the loop ends with nil when that set is all of the dirty cached
\* keys, and with an error at the first key that does not map or whose write
\* fails. A write fails only when the environment fails; it may leave the
\* file as it was (MkdirAll or the open failed) or truncated.
SyncOutcomes ==
    LET D == DirtyCached
        Bad == { k \in D : Loc(k).err # "ok" }
        done == IF Bad = {} /\ (D # {} => ioOk)
                THEN { [disk |-> Written(D, {}), dirty |-> dirty \ D, err |-> "ok",
                        touched |-> { Loc(k).path : k \in D }] }
                ELSE {}
        stops == { t \in D \X (SUBSET (D \ Bad)) \X BOOLEAN :
                     /\ t[1] \notin t[2]
                     /\ t[1] \in Bad \/ ~ioOk
                     /\ t[1] \in Bad => ~t[3] }
    IN  done \cup
        { [disk |-> Written(t[2], IF t[3] THEN {t[1]} ELSE {}),
           dirty |-> dirty \ t[2],
           err |-> IF t[1] \in Bad THEN Loc(t[1]).err ELSE "io",
           touched |-> { Loc(k).path : k \in t[2] \cup ({t[1]} \ Bad) }] : t \in stops }

\* Sync, called by op
Sync(op) ==
    \E r \in SyncOutcomes :
        /\ disk' = r.disk
        /\ dirty' = r.dirty
        /\ last' = Ret(op, EmptyStr, r.err, 0, r.touched)

\* A caller calls Sync.
SyncCall(c) ==
    /\ CanStart(c)
    /\ nops' = nops + 1
    /\ Sync("Sync")
    /\ UNCHANGED << inputs, callers, cache, stopped, bg, pc, ioOk, hist, closeSnap >>
    /\ UNCHANGED << metaVars, normVars >>

\* ------------------------------------------------------------ syncLoop

TickOutlivesLoop ==
    /\ Sync("Tick")
    /\ UNCHANGED << inputs, callers, cache, stopped, bg, pc, ioOk, nops, hist,
                    closeSnap >>
    /\ UNCHANGED << metaVars, normVars >>

\* case <-ticker.C: the error of Sync is logged and the loop goes on
Tick ==
    /\ bg = "loop"
    /\ Sync("Tick")
    /\ UNCHANGED << inputs, callers, cache, stopped, bg, pc, ioOk, nops, hist,
                    closeSnap >>
    /\ UNCHANGED << metaVars, normVars >>

\* case <-fs.stopCh: one last Sync, its error logged, and the loop returns
FinalSync ==
    /\ bg = "loop"
    /\ stopped
    /\ Sync("Final")
    /\ bg' = "done"
    /\ UNCHANGED << inputs, callers, cache, stopped, pc, ioOk, nops, hist,
                    closeSnap >>
    /\ UNCHANGED << metaVars, normVars >>

\* --------------------------------------------------------------- Close

\* close(fs.stopCh). Closing a closed channel panics, so Close is called once.
CloseBegin(c) ==
    /\ CanStart(c)
    /\ ~stopped
    /\ nops' = nops + 1
    /\ stopped' = TRUE
    /\ pc' = [pc EXCEPT ![c] = [at |-> "closeSync"]]
    /\ closeSnap' = [k \in DirtyCached |-> cache[k]]
    /\ UNCHANGED << inputs, callers, cache, dirty, disk, bg, ioOk, last, hist >>
    /\ UNCHANGED << metaVars, normVars >>

CloseSyncLeavesFlushToLoop(c) ==
    /\ pc[c].at = "closeSync"
    /\ last' = Ret("Close", EmptyStr, "ok", 0, {})
    /\ pc' = [pc EXCEPT ![c] = Idle]
    /\ UNCHANGED << inputs, callers, cache, dirty, disk, stopped, bg, ioOk, nops,
                    hist, closeSnap >>
    /\ UNCHANGED << metaVars, normVars >>

CloseSyncSwallowsError(c) ==
    /\ pc[c].at = "closeSync"
    /\ \E r \in SyncOutcomes :
        /\ disk' = r.disk
        /\ dirty' = r.dirty
        /\ last' = Ret("Close", EmptyStr, "ok", 0, r.touched)
    /\ pc' = [pc EXCEPT ![c] = Idle]
    /\ UNCHANGED << inputs, callers, cache, stopped, bg, ioOk, nops, hist,
                    closeSnap >>
    /\ UNCHANGED << metaVars, normVars >>

\* return fs.Sync()
CloseSync(c) ==
    /\ pc[c].at = "closeSync"
    /\ Sync("Close")
    /\ pc' = [pc EXCEPT ![c] = Idle]
    /\ UNCHANGED << inputs, callers, cache, stopped, bg, ioOk, nops, hist,
                    closeSnap >>
    /\ UNCHANGED << metaVars, normVars >>

\* --------------------------------------------------------- environment

\* The backing store starts to fail writes and removals, and recovers.
IOFault ==
    /\ ioOk
    /\ ioOk' = FALSE
    /\ UNCHANGED << inputs, callers, cache, dirty, disk, stopped, bg, pc, nops,
                    last, hist, closeSnap >>
    /\ UNCHANGED << metaVars, normVars >>

IORecover ==
    /\ ~ioOk
    /\ ioOk' = TRUE
    /\ UNCHANGED << inputs, callers, cache, dirty, disk, stopped, bg, pc, nops,
                    last, hist, closeSnap >>
    /\ UNCHANGED << metaVars, normVars >>

\* ---------------------------------------------------- specifications

Next ==
    \/ \E c \in Callers, raw \in inputs, data \in Data : Save(c, raw, data)
    \/ \E c \in Callers, raw \in inputs : LoadCheck(c, raw)
    \/ \E c \in Callers : LoadRead(c)
    \/ \E c \in Callers : LoadFill(c)
    \/ \E c \in Callers, raw \in inputs : Delete(c, raw)
    \/ \E c \in Callers, raw \in inputs : List(c, raw)
    \/ \E c \in Callers : SyncCall(c)
    \/ \E c \in Callers : CloseBegin(c)
    \/ \E c \in Callers : CloseSync(c)
    \/ Tick
    \/ FinalSync
    \/ IOFault
    \/ IORecover

Spec == Init /\ [][Next]_vars

\* One key string, drawn from all the strings up to MaxKeyLen characters and
\* from the spellings above, and a single caller.
InitKeys == \E s \in AllKeyStrings \cup RawKeys : InitWith({s}, {1})

SpecKeys == InitKeys /\ [][Next]_vars

\* A single caller beside the sync loop.
InitSolo == InitWith(RawKeys, {1})

SpecSolo == InitSolo /\ [][Next]_vars

\* The sync loop takes every tick it is due while it runs.
FairSpec == Spec /\ WF_vars(Tick)

FairSolo == SpecSolo /\ WF_vars(Tick)

\* The select of the sync loop takes the case of the closed stop channel,
\* which stays ready, after finitely many ticks.
FairStop == SpecSolo /\ WF_vars(FinalSync)

\* ------------------------------------------------------- metadata store

\* FileType
TypeRegular == 0
TypeDirectory == 1
TypeSymlink == 2

\* The nil pointer, and the zero time.Time
Nil == 0
ZeroTime == 0
\* An AccessTime whose words come from two writes that ran at once
TornTime == -1

\* The place of the last separator of p, 0 when it has none
LastSlash(p) ==
    CHOOSE i \in 0..Len(p) :
        /\ i = 0 \/ p[i] = SLASH
        /\ \A j \in (i + 1)..Len(p) : p[j] # SLASH

\* path.Dir: what precedes the last element, cleaned
Dir(p) == Clean(SubSeq(p, 1, LastSlash(p)))

RECURSIVE StripSlashes(_)
StripSlashes(p) ==
    IF Len(p) > 0 /\ p[Len(p)] = SLASH
    THEN StripSlashes(SubSeq(p, 1, Len(p) - 1))
    ELSE p

\* path.Base: the last element
Base(p) ==
    IF p = EmptyStr THEN << DOT >>
    ELSE LET q == StripSlashes(p)
             r == SubSeq(q, LastSlash(q) + 1, Len(q))
         IN  IF r = EmptyStr THEN << SLASH >> ELSE r

\* The path strings the callers of the metadata store pass: the root, a
\* directory in its canonical spelling and in another, a file in it.
MetaRaw ==
    { << SLASH >>,
      << SLASH, "a" >>, << DOT, BACKSLASH, "a", BACKSLASH >>,
      << SLASH, "a", SLASH, "b" >> }

\* Other spellings of the same paths
MetaSpellings ==
    MetaRaw \cup
    { << >>, << DOT >>, << SLASH, DOT, DOT >>, << BACKSLASH >>,
      << "a" >>, << "a", SLASH >>, << SLASH, SLASH, "a" >>,
      << SLASH, "a", SLASH, "b", SLASH, DOT, DOT >>,
      << "a", BACKSLASH, "b" >>,
      << "a", SLASH, SLASH, "b", SLASH, DOT >>,
      << "a", SLASH, "c", SLASH, DOT, DOT, SLASH, "b" >>,
      << DOT, DOT, SLASH, "a", SLASH, "b", SLASH >> }

MetaNormTable == [r \in MetaSpellings |-> normalizePath(r)]
MetaNorm(raw) == MetaNormTable[raw]

MetaKeys == { MetaNormTable[r] : r \in MetaSpellings }
DirTable == [k \in MetaKeys |-> Dir(k)]
BaseTable == [k \in MetaKeys |-> Base(k)]

\* os.FileMode as the set of its bits
Modes == { { "rw" } }
ModeDir == "d"

\* The records a caller makes itself and passes to Update
FreshMetas ==
    { [Inode |-> 0, Name |-> EmptyStr, Type |-> t, Mode |-> {}, Version |-> 0,
       ModifyTime |-> ZeroTime, AccessTime |-> ZeroTime] :
      t \in { TypeRegular, TypeDirectory } }

\* A pointer to a record allocated now
NewRef == Cardinality(DOMAIN heap) + 1

NoConc == [key |-> EmptyStr]

\* NewMemoryStore: the root directory holds the first inode.
MetaInitWith(cs) ==
    /\ mdata = [k \in { RootKey } |-> 1]
    /\ heap = [r \in { 1 } |->
                 [Inode |-> 1, Name |-> << SLASH >>, Type |-> TypeDirectory,
                  Mode |-> { "rwx", "rx" }, Version |-> 1,
                  ModifyTime |-> 1, AccessTime |-> 1]]
    /\ inodes = 1
    /\ now = 1
    /\ mpc = [c \in cs |-> Idle]
    /\ mops = 0
    /\ mlast = [op |-> "none", raw |-> EmptyStr, key |-> EmptyStr, err |-> "ok",
                ref |-> Nil, list |-> EmptyMap]
    /\ assigned = << >>
    /\ conc = NoConc
    /\ NoStorage
    /\ NoNorm

MetaInit == MetaInitWith(Callers)

\* The callers of the metadata store in this run
MetaCallers == DOMAIN mpc

nextInodeFromCount == Cardinality(DOMAIN mdata) + 1

\* s.inodes++ ; return s.inodes
nextInode == inodes + 1

\* What an operation does to the store and what it returns
Outcome(err, m, h, i, ref, list) ==
    [err |-> err, mdata |-> m, heap |-> h, inodes |-> i, ref |-> ref, list |-> list]

Fail(err) == Outcome(err, mdata, heap, inodes, Nil, EmptyMap)

CreateOverwrites(raw, mode) ==
    LET filePath == MetaNorm(raw)
        parent == DirTable[filePath]
    IN  IF parent \notin DOMAIN mdata THEN Fail("NotFound")
        ELSE IF heap[mdata[parent]].Type # TypeDirectory THEN Fail("InvalidArgument")
        ELSE LET meta == [Inode |-> nextInode, Name |-> BaseTable[filePath],
                          Type |-> TypeRegular, Mode |-> mode, Version |-> 1,
                          ModifyTime |-> now, AccessTime |-> now]
             IN  Outcome("ok", Put(mdata, filePath, NewRef), Put(heap, NewRef, meta),
                         nextInode, NewRef, EmptyMap)

\* The body of Create
CreateResult(raw, mode) ==
    LET filePath == MetaNorm(raw)
        parent == DirTable[filePath]
    IN  IF parent \notin DOMAIN mdata THEN Fail("NotFound")
        ELSE IF heap[mdata[parent]].Type # TypeDirectory THEN Fail("InvalidArgument")
        ELSE IF filePath \in DOMAIN mdata THEN Fail("AlreadyExists")
        ELSE LET meta == [Inode |-> nextInode, Name |-> BaseTable[filePath],
                          Type |-> TypeRegular, Mode |-> mode, Version |-> 1,
                          ModifyTime |-> now, AccessTime |-> now]
             IN  Outcome("ok", Put(mdata, filePath, NewRef), Put(heap, NewRef, meta),
                         nextInode, NewRef, EmptyMap)

MkdirChecksEntryFirst(raw, mode) ==
    LET dirPath == MetaNorm(raw)
        parent == DirTable[dirPath]
    IN  IF dirPath \in DOMAIN mdata THEN Fail("AlreadyExists")
        ELSE IF parent \notin DOMAIN mdata THEN Fail("NotFound")
        ELSE IF heap[mdata[parent]].Type # TypeDirectory THEN Fail("InvalidArgument")
        ELSE LET meta == [Inode |-> nextInode, Name |-> BaseTable[dirPath],
                          Type |-> TypeDirectory, Mode |-> mode \cup { ModeDir },
                          Version |-> 1, ModifyTime |-> now, AccessTime |-> now]
             IN  Outcome("ok", Put(mdata, dirPath, NewRef), Put(heap, NewRef, meta),
                         nextInode, NewRef, EmptyMap)

\* The body of Mkdir
MkdirResult(raw, mode) ==
    LET dirPath == MetaNorm(raw)
        parent == DirTable[dirPath]
    IN  IF parent \notin DOMAIN mdata THEN Fail("NotFound")
        ELSE IF heap[mdata[parent]].Type # TypeDirectory THEN Fail("InvalidArgument")
        ELSE IF dirPath \in DOMAIN mdata THEN Fail("AlreadyExists")
        ELSE LET meta == [Inode |-> nextInode, Name |-> BaseTable[dirPath],
                          Type |-> TypeDirectory, Mode |-> mode \cup { ModeDir },
                          Version |-> 1, ModifyTime |-> now, AccessTime |-> now]
             IN  Outcome("ok", Put(mdata, dirPath, NewRef), Put(heap, NewRef, meta),
                         nextInode, NewRef, EmptyMap)

GetSkipsNormalize(raw, t) ==
    IF raw \notin DOMAIN mdata THEN Fail("NotFound")
    ELSE LET ref == mdata[raw]
         IN  Outcome("ok", mdata, [heap EXCEPT ![ref].AccessTime = t], inodes,
                     ref, EmptyMap)

\* The body of Get, its write of AccessTime leaving t
GetResult(raw, t) ==
    LET filePath == MetaNorm(raw)
    IN  IF filePath \notin DOMAIN mdata THEN Fail("NotFound")
        ELSE LET ref == mdata[filePath]
             IN  Outcome("ok", mdata, [heap EXCEPT ![ref].AccessTime = t], inodes,
                         ref, EmptyMap)

\* The body of Update: the record the caller passed is stamped, its version
\* raised, and the map made to point at it. arg is the pointer to a record
\* of the store, or the record itself when the caller has just made it.
UpdateResult(raw, arg, fresh) ==
    LET filePath == MetaNorm(raw)
        ref == IF fresh THEN NewRef ELSE arg
        meta == IF fresh THEN arg ELSE heap[arg]
    IN  IF filePath \notin DOMAIN mdata THEN Fail("NotFound")
        ELSE Outcome("ok", Put(mdata, filePath, ref),
                     Put(heap, ref, [meta EXCEPT !.ModifyTime = now,
                                                 !.Version = meta.Version + 1]),
                     inodes, Nil, EmptyMap)

DeleteRemovesChildren(raw) ==
    LET filePath == MetaNorm(raw)
    IN  IF filePath \notin DOMAIN mdata THEN Fail("NotFound")
        ELSE Outcome("ok",
                     [p \in { q \in DOMAIN mdata : ~HasPrefix(q, filePath) } |-> mdata[p]],
                     heap, inodes, Nil, EmptyMap)

\* The body of Delete
DeleteResult(raw) ==
    LET filePath == MetaNorm(raw)
    IN  IF filePath \notin DOMAIN mdata THEN Fail("NotFound")
        ELSE Outcome("ok", Drop(mdata, filePath), heap, inodes, Nil, EmptyMap)

ListKeepsSelf(raw) ==
    LET dirPath == MetaNorm(raw)
    IN  IF dirPath \notin DOMAIN mdata THEN Fail("NotFound")
        ELSE IF heap[mdata[dirPath]].Type # TypeDirectory THEN Fail("InvalidArgument")
        ELSE Outcome("ok", mdata, heap, inodes, Nil,
                     [p \in { q \in DOMAIN mdata : DirTable[q] = dirPath } |-> mdata[p]])

\* The body of List: the pointers appended, each under the path it was found at
ListResult(raw) ==
    LET dirPath == MetaNorm(raw)
    IN  IF dirPath \notin DOMAIN mdata THEN Fail("NotFound")
        ELSE IF heap[mdata[dirPath]].Type # TypeDirectory THEN Fail("InvalidArgument")
        ELSE Outcome("ok", mdata, heap, inodes, Nil,
                     [p \in { q \in DOMAIN mdata : DirTable[q] = dirPath /\ q # dirPath }
                        |-> mdata[p]])

\* The callers are interchangeable: a call is made by the first caller that
\* is in none.
MetaCanStart(c) ==
    /\ c \in MetaCallers
    /\ mpc[c] = Idle
    /\ \A b \in MetaCallers : b < c => mpc[b] # Idle
    /\ mops < IF Cardinality(MetaCallers) = 1 THEN MaxMetaOps ELSE MaxConcOps

WriteOps == { "Create", "Mkdir", "Update", "Delete" }
ReadOps == { "Get", "List" }
MakeOps == { "Create", "Mkdir" }

\* Every caller is in a Create or Mkdir of the one path k that has no entry
\* and whose parent is a directory, none of them having the lock yet.
AllCreating(pcs, k) ==
    /\ Cardinality(MetaCallers) > 1
    /\ \A b \in MetaCallers :
         /\ pcs[b].at = "called"
         /\ pcs[b].op \in MakeOps
         /\ MetaNorm(pcs[b].raw) = k
    /\ k \notin DOMAIN mdata
    /\ DirTable[k] \in DOMAIN mdata
    /\ heap[mdata[DirTable[k]]].Type = TypeDirectory

\* A caller calls op with raw and, for Create and Mkdir, a mode, for Update a
\* pointer to a record there is; it goes on to wait for the lock.
Call(c, op, raw, arg) ==
    /\ MetaCanStart(c)
    /\ mops' = mops + 1
    /\ mpc' = [mpc EXCEPT ![c] =
                 [at |-> "called", op |-> op, raw |-> raw, arg |-> arg,
                  fresh |-> FALSE, raced |-> FALSE]]
    /\ conc' = IF op \in MakeOps /\ AllCreating(mpc', MetaNorm(raw))
               THEN [key |-> MetaNorm(raw), inodes |-> inodes,
                     ok |-> 0, exists |-> 0, other |-> 0]
               ELSE NoConc
    /\ UNCHANGED << mdata, heap, inodes, now, mlast, assigned >>
    /\ UNCHANGED << storageVars, normVars >>

\* A caller calls Update with a record it has just made.
CallUpdateFresh(c, raw, meta) ==
    /\ MetaCanStart(c)
    /\ mops' = mops + 1
    /\ mpc' = [mpc EXCEPT ![c] =
                 [at |-> "called", op |-> "Update", raw |-> raw, arg |-> meta,
                  fresh |-> TRUE, raced |-> FALSE]]
    /\ conc' = NoConc
    /\ UNCHANGED << mdata, heap, inodes, now, mlast, assigned >>
    /\ UNCHANGED << storageVars, normVars >>

\* s.mu.Lock() is granted when no reader holds the lock; what runs between it
\* and the deferred Unlock is one step.
Locked(c, op) ==
    /\ c \in MetaCallers
    /\ mpc[c].at = "called"
    /\ mpc[c].op = op
    /\ \A b \in MetaCallers : mpc[b].at # "rlocked"

Returns(c, r) ==
    /\ mdata' = r.mdata
    /\ heap' = r.heap
    /\ inodes' = r.inodes
    /\ mlast' = [op |-> mpc[c].op, raw |-> mpc[c].raw, key |-> MetaNorm(mpc[c].raw),
                 err |-> r.err, ref |-> r.ref, list |-> r.list]

\* What a Create or Mkdir that returns r adds to the history
Made(r) ==
    /\ assigned' = IF r.err = "ok" THEN Append(assigned, r.heap[r.ref].Inode)
                   ELSE assigned
    /\ conc' = IF conc = NoConc THEN conc
               ELSE IF r.err = "ok" THEN [conc EXCEPT !.ok = @ + 1]
               ELSE IF r.err = "AlreadyExists" THEN [conc EXCEPT !.exists = @ + 1]
               ELSE [conc EXCEPT !.other = @ + 1]

Create(c) ==
    /\ Locked(c, "Create")
    /\ LET r == CreateResult(mpc[c].raw, mpc[c].arg)
       IN  Returns(c, r) /\ Made(r)
    /\ mpc' = [mpc EXCEPT ![c] = Idle]
    /\ UNCHANGED << now, mops >>
    /\ UNCHANGED << storageVars, normVars >>

Mkdir(c) ==
    /\ Locked(c, "Mkdir")
    /\ LET r == MkdirResult(mpc[c].raw, mpc[c].arg)
       IN  Returns(c, r) /\ Made(r)
    /\ mpc' = [mpc EXCEPT ![c] = Idle]
    /\ UNCHANGED << now, mops >>
    /\ UNCHANGED << storageVars, normVars >>

Update(c) ==
    /\ Locked(c, "Update")
    /\ Returns(c, UpdateResult(mpc[c].raw, mpc[c].arg, mpc[c].fresh))
    /\ mpc' = [mpc EXCEPT ![c] = Idle]
    /\ UNCHANGED << now, mops, assigned, conc >>
    /\ UNCHANGED << storageVars, normVars >>

MemDelete(c) ==
    /\ Locked(c, "Delete")
    /\ Returns(c, DeleteResult(mpc[c].raw))
    /\ mpc' = [mpc EXCEPT ![c] = Idle]
    /\ UNCHANGED << now, mops, assigned, conc >>
    /\ UNCHANGED << storageVars, normVars >>

\* s.mu.RLock(): no writer holds the lock between two steps, so a reader is
\* let in at once, beside the readers there are.
RLock(c) ==
    /\ c \in MetaCallers
    /\ mpc[c].at = "called"
    /\ mpc[c].op \in ReadOps
    /\ mpc' = [mpc EXCEPT ![c].at = "rlocked"]
    /\ UNCHANGED << mdata, heap, inodes, now, mops, mlast, assigned, conc >>
    /\ UNCHANGED << storageVars, normVars >>

\* The readers that are in a Get of the record c's Get finds
OtherGetters(c) ==
    LET k == MetaNorm(mpc[c].raw)
    IN  { b \in MetaCallers \ { c } :
            /\ mpc[b].at = "rlocked"
            /\ mpc[b].op = "Get"
            /\ k \in DOMAIN mdata
            /\ MetaNorm(mpc[b].raw) \in DOMAIN mdata
            /\ mdata[MetaNorm(mpc[b].raw)] = mdata[k] }

\* Get under the read lock. Its write of AccessTime is not ordered with the
\* write of another Get of the same record that holds the read lock too:
\* the field is then left with either time or with words of both.
Get(c) ==
    /\ c \in MetaCallers
    /\ mpc[c].at = "rlocked"
    /\ mpc[c].op = "Get"
    /\ \E t \in IF mpc[c].raced \/ OtherGetters(c) # {}
                THEN { now, TornTime } ELSE { now } :
         Returns(c, GetResult(mpc[c].raw, t))
    /\ mpc' = [b \in MetaCallers |->
                 IF b = c THEN Idle
                 ELSE IF b \in OtherGetters(c) THEN [mpc[b] EXCEPT !.raced = TRUE]
                 ELSE mpc[b]]
    /\ UNCHANGED << now, mops, assigned, conc >>
    /\ UNCHANGED << storageVars, normVars >>

MemList(c) ==
    /\ c \in MetaCallers
    /\ mpc[c].at = "rlocked"
    /\ mpc[c].op = "List"
    /\ Returns(c, ListResult(mpc[c].raw))
    /\ mpc' = [mpc EXCEPT ![c] = Idle]
    /\ UNCHANGED << now, mops, assigned, conc >>
    /\ UNCHANGED << storageVars, normVars >>

\* time.Now() reads later.
TimePasses ==
    /\ now < MaxTime
    /\ now' = now + 1
    /\ UNCHANGED << mdata, heap, inodes, mpc, mops, mlast, assigned, conc >>
    /\ UNCHANGED << storageVars, normVars >>

MetaNext ==
    \/ \E c \in Callers, op \in MakeOps, raw \in MetaRaw, mode \in Modes :
          Call(c, op, raw, mode)
    \/ \E c \in Callers, op \in { "Get", "List", "Delete" }, raw \in MetaRaw :
          Call(c, op, raw, Nil)
    \/ \E c \in Callers, raw \in MetaRaw, p \in DOMAIN mdata :
          Call(c, "Update", raw, mdata[p])
    \/ \E c \in Callers, raw \in MetaRaw, meta \in FreshMetas :
          CallUpdateFresh(c, raw, meta)
    \/ \E c \in Callers : Create(c)
    \/ \E c \in Callers : Mkdir(c)
    \/ \E c \in Callers : Update(c)
    \/ \E c \in Callers : MemDelete(c)
    \/ \E c \in Callers : RLock(c)
    \/ \E c \in Callers : Get(c)
    \/ \E c \in Callers : MemList(c)
    \/ TimePasses

SpecMeta == MetaInit /\ [][MetaNext]_vars

\* A single caller
MetaInitSolo == MetaInitWith({ 1 })

SpecMetaSolo == MetaInitSolo /\ [][MetaNext]_vars

\* ------------------------------------------------------ the normaliser

PathChars == { "a", SLASH, BACKSLASH, DOT }

RECURSIVE PathsOfLen(_)
PathsOfLen(n) ==
    IF n = 0 THEN { EmptyStr }
    ELSE { Append(s, c) : s \in PathsOfLen(n - 1), c \in PathChars }

AllPaths == UNION { PathsOfLen(n) : n \in 0..MaxPathLen }

NormInit ==
    /\ np \in AllPaths
    /\ nres = << >>
    /\ NoStorage
    /\ NoMeta

\* normalizePath is called on the string, and then on what it returned.
Normalize ==
    /\ Len(nres) < 2
    /\ nres' = Append(nres, normalizePath(IF nres = << >> THEN np ELSE nres[Len(nres)]))
    /\ UNCHANGED << np, storageVars, metaVars >>

SpecNorm == NormInit /\ [][Normalize]_vars

\* ------------------------------------------------------------- claims

\* The operations that end with the return of a Sync
SyncOps == { "Sync", "Tick", "Final", "Close" }

SyncReturnedOk == last.op \in SyncOps /\ last.err = "ok"

\* The last Save or Delete called on k was a Save that succeeded, of data d.
SavedAs(k, d) == k \in DOMAIN hist /\ hist[k].kind = "saved" /\ hist[k].val = d

\* The last Save or Delete called on k was a Delete.
DeleteCalled(k) == k \in DOMAIN hist /\ hist[k].kind = "deleted"

DeleteReturnedOk(k) == DeleteCalled(k) /\ hist[k].ok

\* The file of key k holds d.
FileHolds(k, d) ==
    /\ Loc(k).err = "ok"
    /\ Loc(k).path \in DOMAIN disk
    /\ disk[Loc(k).path] = d

FileExists(k) == Loc(k).err = "ok" /\ Loc(k).path \in DOMAIN disk

\* C1: when a Sync has just returned nil, every key whose last Save or
\* Delete was a successful Save(k, d) has its file, and the file holds d.
C1_SyncWritesLastSave ==
    SyncReturnedOk =>
        \A k \in DOMAIN hist : hist[k].kind = "saved" => FileHolds(k, hist[k].val)

\* C2: with a single caller beside the sync loop, a Load of a key whose last
\* Save or Delete was a successful Save(k, d) returns d, whatever the loop
\* has flushed in between.
C2_LoadReturnsLastSave ==
    (last.op = "Load" /\ last.key \in DOMAIN hist /\ hist[last.key].kind = "saved")
        => (last.err = "ok" /\ last.val = hist[last.key].val)

\* A Load returned the bytes of the second value saved, after the key's flag
\* was cleared by a flush that wrote them.
C2_Witness ==
    /\ last.op = "Load"
    /\ last.err = "ok"
    /\ SavedAs(last.key, 2)
    /\ last.val = 2
    /\ last.key \notin dirty
    /\ FileHolds(last.key, 2)

\* C3: while the last Save or Delete called on k is a Delete that returned
\* nil, k is not loadable: it is not in the cache and it has no file, so
\* that Load(k) ends with "key not found"; no flush brings either back.
C3_DeletedStaysGone ==
    \A k \in DOMAIN hist :
        DeleteReturnedOk(k) => (k \notin DOMAIN cache /\ ~FileExists(k))

\* C4: when a Sync has just returned nil, no key is marked dirty.
C4_SyncClearsEveryFlag == SyncReturnedOk => dirty = {}

\* C5: when Close returns nil, every key that was dirty in the cache when
\* Close was called has its file, holding the bytes the cache held then,
\* however the loop's tick Sync and last Sync fall around Close's own Sync.
C5_CloseFlushesDirty ==
    (last.op = "Close" /\ last.err = "ok") =>
        \A k \in DOMAIN closeSnap : FileHolds(k, closeSnap[k])

\* Close returned nil with a key that was dirty when it was called, after
\* the loop had already taken the stop signal and run its last Sync.
C5_Witness ==
    /\ last.op = "Close"
    /\ last.err = "ok"
    /\ closeSnap # EmptyMap
    /\ bg = "done"

\* C6: under fair ticking, if from some point on the store stays open, writes
\* succeed and the last Save or Delete of k stays a successful Save(k, d),
\* then the file of k comes to hold d, with no caller calling Sync.
C6_TickEventuallyWrites ==
    \A k \in ValidKeys(RawKeys) : \A d \in Data :
        (<>[](SavedAs(k, d) /\ ioOk /\ ~stopped)) => []<>FileHolds(k, d)

\* C7 as claimed: Close returns nil whatever its Sync returns.
C7_CloseNeverFails == last.op = "Close" => last.err = "ok"

\* C7 amended: the error of the loop's last Sync is only logged and the loop
\* ends all the same, but Close returns what its own Sync returns: nil
\* exactly when that Sync left no dirty key in the cache unwritten.
C7_CloseReturnsSyncError ==
    /\ last.op = "Close" => (last.err = "ok" <=> DirtyCached = {})
    /\ last.op = "Final" => bg = "done"

\* Close returned the error of its Sync.
C7_Witness == last.op = "Close" /\ last.err = "io" /\ bg = "done"

\* C8: when a Sync has just returned nil, a key whose last Save or Delete
\* was a Delete (whatever it returned) has no file; and a Delete of a key
\* that maps to a location returns an error only if the file was there.
C8_FlushRemovesDeleted ==
    /\ SyncReturnedOk =>
           \A k \in DOMAIN hist : DeleteCalled(k) => ~FileExists(k)
    /\ (last.op = "Delete" /\ last.err # "ok" /\ Loc(last.key).err = "ok") =>
           FileExists(last.key)

\* p lies strictly below RootDir: its segments are RootDir's followed by at
\* least one more, none of them empty, "." or "..".
ProperDescendant(p) ==
    LET segs == Split(p)
        root == Split(RootDir)
    IN  /\ Len(segs) > Len(root)
        /\ SubSeq(segs, 1, Len(root)) = root
        /\ \A i \in (Len(root) + 1)..Len(segs) :
               segs[i] \notin { EmptyStr, DotSeg, DotDotSeg }

KeyOps == { "Save", "Load", "Delete" }

IsRootSpelling(raw) ==
    Resolve(Split(ReplaceAll(raw, BACKSLASH, SLASH)), << >>, TRUE) = << >>

\* C10: Save of the empty key or of a key that resolves to the root returns
\* an error and leaves the cache and the dirty set as they were; "/" is
\* never a key of the cache.
C10_SaveRejectsRoot ==
    /\ [][ \A c \in Callers, raw \in inputs, data \in Data :
             (Save(c, raw, data) /\ (raw = EmptyStr \/ IsRootSpelling(raw)))
                => (last'.op = "Save" /\ last'.err # "ok"
                    /\ UNCHANGED << cache, dirty >>) ]_vars
    /\ [](RootKey \notin DOMAIN cache)

\* Save of a root spelling was refused.
C10_Witness ==
    /\ last.op = "Save"
    /\ last.err = "root"
    /\ \E s \in inputs : Len(s) > 1 /\ IsRootSpelling(s)

\* ---------------------------------------------- claims: metadata store

\* The parent of a normalised path: the path without its last element, and
\* the root for the root and for the elements of the root.
ParentOf(k) ==
    LET segs == Split(k)
    IN  IF Len(segs) <= 2 THEN RootKey
        ELSE JoinSegs(SubSeq(segs, 1, Len(segs) - 1))

ParentTable == [k \in MetaKeys |-> ParentOf(k)]

IsDirectory(k) == k \in DOMAIN mdata /\ heap[mdata[k]].Type = TypeDirectory

\* What the claims say Create and Mkdir of path k return
MakeErr(k) ==
    IF ParentTable[k] \notin DOMAIN mdata THEN "NotFound"
    ELSE IF ~IsDirectory(ParentTable[k]) THEN "InvalidArgument"
    ELSE IF k \in DOMAIN mdata THEN "AlreadyExists"
    ELSE "ok"

\* C11: Create and Mkdir succeed exactly when the parent of the normalised
\* path has an entry, that entry is a directory and the path has none; they
\* fail with NotFound, InvalidArgument, AlreadyExists in this precedence; a
\* call that fails leaves the map, the records and the inode counter as they
\* were, and one that succeeds stores an entry of the operation's type.
C11_MakeSucceedsExactlyWhen ==
    [][ \A c \in Callers :
          (Create(c) \/ Mkdir(c)) =>
              LET k == MetaNorm(mpc[c].raw)
              IN  /\ mlast'.err = MakeErr(k)
                  /\ MakeErr(k) # "ok" => UNCHANGED << mdata, heap, inodes >>
                  /\ MakeErr(k) = "ok" =>
                        /\ DOMAIN mdata' = DOMAIN mdata \cup { k }
                        /\ heap'[mdata'[k]].Type =
                              IF mpc[c].op = "Mkdir" THEN TypeDirectory
                              ELSE TypeRegular
                        /\ inodes' = inodes + 1 ]_vars

\* Mkdir or Create of a path that has an entry failed with InvalidArgument,
\* its parent not being a directory.
C11_Witness ==
    /\ mlast.op \in MakeOps
    /\ mlast.err = "InvalidArgument"
    /\ mlast.key \in DOMAIN mdata

\* C12: when every caller has called Create or Mkdir of one path that has
\* no entry and whose parent is a directory, before any of them got the
\* lock, then however the calls are ordered exactly one of them succeeds,
\* the others fail with AlreadyExists, and one inode is used up.
C12_OneCreateWins ==
    conc # NoConc =>
        /\ conc.other = 0
        /\ conc.ok <= 1
        /\ conc.exists > 0 => conc.ok = 1
        /\ inodes = conc.inodes + conc.ok
        /\ (\A c \in MetaCallers : mpc[c] = Idle) =>
               /\ conc.ok = 1
               /\ conc.exists = Cardinality(MetaCallers) - 1

\* All the racing creations have returned, the last of them, called with
\* another spelling of the path, with AlreadyExists.
C12_Witness ==
    /\ conc # NoConc
    /\ conc.ok = 1
    /\ conc.exists = Cardinality(MetaCallers) - 1
    /\ mlast.err = "AlreadyExists"
    /\ mlast.raw # mlast.key

\* C13: the entry of "/" is there and is a directory, in every state.
C13_RootAlwaysDirectory == IsDirectory(RootKey)

\* C14: no two paths of the map hold records with the same inode.
C14_InodesDistinct ==
    \A p \in DOMAIN mdata, q \in DOMAIN mdata :
        p # q => heap[mdata[p]].Inode # heap[mdata[q]].Inode

\* C15: the inodes Create and Mkdir give out grow strictly, the first of
\* them above the root's, whatever was deleted or made again in between;
\* the counter moves only with a creation that succeeds.
C15_InodesGrow ==
    /\ \A i \in 1..Len(assigned) :
         /\ assigned[i] > 1
         /\ \A j \in (i + 1)..Len(assigned) : assigned[i] < assigned[j]
    /\ inodes = 1 + Len(assigned)

\* "/a" was made, deleted and made again: its second inode is the larger.
C15_Witness ==
    /\ assigned = << 2, 3 >>
    /\ mlast.op \in MakeOps
    /\ mlast.err = "ok"
    /\ mlast.key = << SLASH, "a" >>
    /\ heap[mdata[mlast.key]].Inode = 3

\* C16: an Update of a path that has an entry leaves it with the version
\* stored before plus one and with a ModifyTime not earlier than the one
\* stored before, whatever record is passed; an Update of a path that has
\* none fails with NotFound and changes nothing.
C16_UpdateBumpsVersion ==
    [][ \A c \in Callers :
          Update(c) =>
              LET k == MetaNorm(mpc[c].raw)
              IN  IF k \in DOMAIN mdata
                  THEN /\ mlast'.err = "ok"
                       /\ heap'[mdata'[k]].Version = heap[mdata[k]].Version + 1
                       /\ heap'[mdata'[k]].ModifyTime >= heap[mdata[k]].ModifyTime
                  ELSE /\ mlast'.err = "NotFound"
                       /\ UNCHANGED << mdata, heap, inodes >> ]_vars

\* What the claims say List of path k returns
ListErr(k) ==
    IF k \notin DOMAIN mdata THEN "NotFound"
    ELSE IF ~IsDirectory(k) THEN "InvalidArgument"
    ELSE "ok"

\* C17: List fails with NotFound for a path without an entry and with
\* InvalidArgument for one whose entry is no directory; otherwise it returns
\* the entries of exactly the paths whose parent is the directory, the
\* directory itself left out, and changes nothing. An entry leaves the map,
\* and so the listing of its parent, only by a Delete of its path.
C17_ListIsDirectChildren ==
    /\ [][ \A c \in Callers :
             MemList(c) =>
                 LET k == MetaNorm(mpc[c].raw)
                 IN  /\ mlast'.err = ListErr(k)
                     /\ ListErr(k) = "ok" =>
                           /\ DOMAIN mlast'.list =
                                 { p \in DOMAIN mdata : p # k /\ ParentTable[p] = k }
                           /\ \A p \in DOMAIN mlast'.list : mlast'.list[p] = mdata[p]
                     /\ UNCHANGED << mdata, heap, inodes >> ]_vars
    /\ [][ \A p \in DOMAIN mdata :
             p \notin DOMAIN mdata' => (mlast'.op = "Delete" /\ mlast'.key = p) ]_vars

\* List("/") returned "/a" alone, the map holding "/a/b" too.
C17_Witness ==
    /\ mlast.op = "List"
    /\ mlast.err = "ok"
    /\ mlast.key = RootKey
    /\ DOMAIN mlast.list = { << SLASH, "a" >> }
    /\ << SLASH, "a", SLASH, "b" >> \in DOMAIN mdata

\* C18: a Save of a key that maps to a location succeeds, whatever the
\* other callers and the sync loop do; a step changes the cache at no key
\* but the one its Save, Load or Delete is called on, and a flush changes
\* it nowhere; and a Load of a key whose last Save or Delete was a Save
\* that no Load of the key overlapped returns the bytes of that Save.
C18_SavesIndependent ==
    /\ [][ \A k \in DOMAIN cache \cup DOMAIN cache' :
             (k \in DOMAIN cache /\ k \in DOMAIN cache' /\ cache'[k] = cache[k])
             \/ (last'.op \in KeyOps /\ last'.key = k) ]_vars
    /\ [](( /\ last.op = "Save"
            /\ last.key # RootKey
            /\ Loc(last.key).err = "ok" ) => last.err = "ok")
    /\ [](( /\ last.op = "Load"
            /\ last.key \in DOMAIN hist
            /\ hist[last.key].kind = "saved"
            /\ ~hist[last.key].overlap )
          => (last.err = "ok" /\ last.val = hist[last.key].val))

\* While one caller is in a Load of a key, another has saved a second key
\* and loaded it back.
C18_Witness ==
    /\ last.op = "Load"
    /\ last.err = "ok"
    /\ SavedAs(last.key, last.val)
    /\ \E c \in Callers :
         /\ pc[c].at \in { "loadRead", "loadFill" }
         /\ pc[c].key # last.key

\* The pointers Get can return now
LivePointers == { mdata[p] : p \in DOMAIN mdata }

\* C19: in every state, each operation called with a spelling p returns what
\* it returns, and leaves the store as it leaves it, when called with the
\* normalised form of p; two spellings with one normalised form therefore
\* get the same outcome and the same effect, and Get the same record.
C19_SpellingInsensitive ==
    \A p \in { r \in MetaSpellings : MetaNorm(r) # r } :
        LET q == MetaNorm(p)
        IN  /\ \A mode \in Modes :
                 /\ CreateResult(p, mode) = CreateResult(q, mode)
                 /\ MkdirResult(p, mode) = MkdirResult(q, mode)
            /\ GetResult(p, now) = GetResult(q, now)
            /\ \A ref \in LivePointers :
                 UpdateResult(p, ref, FALSE) = UpdateResult(q, ref, FALSE)
            /\ \A meta \in FreshMetas :
                 UpdateResult(p, meta, TRUE) = UpdateResult(q, meta, TRUE)
            /\ DeleteResult(p) = DeleteResult(q)
            /\ ListResult(p) = ListResult(q)

\* Get, called with a spelling that is not the normalised one, returned the
\* record of the normalised path.
C19_Witness ==
    /\ mlast.op = "Get"
    /\ mlast.err = "ok"
    /\ mlast.raw # mlast.key
    /\ mlast.key \in DOMAIN mdata
    /\ mlast.ref = mdata[mlast.key]
    /\ heap[mlast.ref].Inode > 1

\* ---------------------------------------------- claims: normaliser

\* C20: normalizePath returns a string for every string, and returns its
\* own result unchanged when called on it.
C20_NormalizeIdempotent ==
    /\ \A i \in 1..Len(nres) :
         /\ Len(nres[i]) >= 1
         /\ \A j \in 1..Len(nres[i]) : nres[i][j] \in PathChars
    /\ Len(nres) = 2 => nres[2] = nres[1]

\* A string with a backslash and a ".." was normalised twice, to a path
\* below the root that is not the string itself.
C20_Witness ==
    /\ Len(nres) = 2
    /\ ContainsAny(np, { BACKSLASH })
    /\ \E i \in 1..(Len(np) - 1) : np[i] = DOT /\ np[i + 1] = DOT
    /\ Len(nres[2]) > 1
    /\ nres[2] # np

\* The elements of p between its separators of either kind
Elements(p) == Split(ReplaceAll(p, BACKSLASH, SLASH))

\* The directories walked from the root along the elements from the i-th on,
\* at being the ones walked so far: "" and "." stay, ".." goes up and stays
\* at the root, any other element goes down.
RECURSIVE WalkFrom(_, _, _)
WalkFrom(els, i, at) ==
    IF i > Len(els) THEN at
    ELSE IF els[i] = EmptyStr \/ els[i] = << DOT >> THEN WalkFrom(els, i + 1, at)
    ELSE IF els[i] = << DOT, DOT >>
    THEN WalkFrom(els, i + 1, IF at = << >> THEN at ELSE SubSeq(at, 1, Len(at) - 1))
    ELSE WalkFrom(els, i + 1, Append(at, els[i]))

\* The path of the directories at, written from the root
RECURSIVE Spelled(_)
Spelled(at) ==
    IF at = << >> THEN << >> ELSE << SLASH >> \o Head(at) \o Spelled(Tail(at))

Canonical(p) ==
    LET at == WalkFrom(Elements(p), 1, << >>)
    IN  IF at = << >> THEN << SLASH >> ELSE Spelled(at)

\* C21: what normalizePath returns starts with "/", holds no backslash, no
\* empty, "." or ".." element, ends with "/" only when it is "/", and is the
\* path reached from the root along the elements of the string, ".." at the
\* root staying there; the string with "/" for every backslash gives the
\* same path, and "" and "." give "/".
C21_NormalizeIsCanonical ==
    Len(nres) >= 1 =>
        LET r == nres[1]
        IN  /\ Len(r) >= 1 /\ r[1] = SLASH
            /\ ~ContainsAny(r, { BACKSLASH })
            /\ r # << SLASH >> =>
                 /\ r[Len(r)] # SLASH
                 /\ \A i \in 2..Len(Split(r)) :
                      Split(r)[i] \notin { EmptyStr, << DOT >>, << DOT, DOT >> }
            /\ r = Canonical(np)
            /\ r = normalizePath(ReplaceAll(np, BACKSLASH, SLASH))
            /\ np \in { EmptyStr, << DOT >> } => r = << SLASH >>

\* "..\a/" was normalised to "/a": the ".." stayed at the root.
C21_Witness ==
    /\ np = << DOT, DOT, BACKSLASH, "a", SLASH >>
    /\ Len(nres) >= 1
    /\ nres[1] = << SLASH, "a" >>

\* ------------------------------------------ claims: storage, continued

\* C22: List returns nil and exactly the keys of the cache that start with
\* the normalised prefix, and changes neither the cache, the dirty set nor
\* the files; so it returns a key with that prefix whose last Save or Delete
\* was a Save, flushed or not, and none whose last one was a Delete that
\* returned nil, no Load of the key having overlapped either.
C22_ListIsCachePrefix ==
    /\ [][ \A c \in Callers, raw \in inputs :
             List(c, raw) =>
                 /\ last'.err = "ok"
                 /\ last'.val =
                       { k \in DOMAIN cache : HasPrefix(k, normalizePath(raw)) }
                 /\ UNCHANGED << cache, dirty, disk >> ]_vars
    /\ [](last.op = "List" =>
            \A k \in DOMAIN hist :
                (HasPrefix(k, last.key) /\ ~hist[k].overlap) =>
                    /\ hist[k].kind = "saved" => k \in last.val
                    /\ DeleteReturnedOk(k) => k \notin last.val)

\* List returned a key that is still dirty and left out one, of the same
\* prefix, that was deleted.
C22_Witness ==
    /\ last.op = "List"
    /\ \E k \in last.val : k \in dirty /\ SavedAs(k, 2)
    /\ \E k \in DOMAIN hist :
         HasPrefix(k, last.key) /\ DeleteReturnedOk(k) /\ k \notin last.val

\* C23: when a Load of k that missed the cache fills it, and the last Save
\* or Delete of k was called while a Load of k was in flight, the cache is
\* left as that call left it: holding the bytes of the Save, or holding
\* nothing for k after the Delete.
C23_LoadKeepsConcurrentWrite ==
    [][ \A c \in Callers :
          LoadFill(c) =>
              LET k == pc[c].key
              IN  (k \in DOMAIN hist /\ hist[k].overlap) =>
                      /\ hist[k].kind = "saved" =>
                            (k \in DOMAIN cache' /\ cache'[k] = hist[k].val)
                      /\ hist[k].kind = "deleted" => k \notin DOMAIN cache' ]_vars

\* C24: a Save, a Load or a Delete that returns an error other than "key not
\* found" leaves the cache and the dirty set as they were.
C24_FailedCallChangesNothing ==
    [][ \A c \in Callers, raw \in inputs :
          ( /\ \/ \E d \in Data : Save(c, raw, d)
               \/ LoadCheck(c, raw)
               \/ Delete(c, raw)
            /\ last'.op \in KeyOps
            /\ last' # last
            /\ last'.err \notin { "ok", "notfound" } )
          => UNCHANGED << cache, dirty >> ]_vars

\* C25: every key of the cache that is not marked dirty has its file, and
\* the file holds the bytes of the cache; a flag is cleared only in a step
\* that leaves the file holding the bytes of the cache.
C25_CleanKeysAreWritten ==
    /\ [](\A k \in DOMAIN cache : k \notin dirty => FileHolds(k, cache[k]))
    /\ [][ \A k \in dirty :
             k \notin dirty' =>
                 (k \in DOMAIN cache' /\ Loc(k).err = "ok"
                  /\ Loc(k).path \in DOMAIN disk'
                  /\ disk'[Loc(k).path] = cache'[k]) ]_vars

\* C26: no record of the store is written by one call while another call
\* reads or writes it: a Get that holds the lock and is about to write the
\* AccessTime of its record has no other Get of that record holding the
\* lock beside it, and no AccessTime is left with the words of two writes.
C26_RecordWritesExclusive ==
    /\ \A c \in MetaCallers :
          (mpc[c].at = "rlocked" /\ mpc[c].op = "Get"
             /\ MetaNorm(mpc[c].raw) \in DOMAIN mdata)
          => OtherGetters(c) = {}
    /\ \A r \in DOMAIN heap : heap[r].AccessTime # TornTime

\* C27: Delete of a path that has an entry returns nil, removes the entry
\* of the normalised path and leaves every other entry, the records and the
\* inode counter as they were; Delete of a path without an entry fails with
\* NotFound and changes nothing. An entry whose parent has no entry stays:
\* Get returns it, while List of the parent and Create and Mkdir of a path
\* beneath the parent fail with NotFound.
C27_DeleteRemovesOneEntry ==
    /\ [][ \A c \in Callers :
             MemDelete(c) =>
                 LET k == MetaNorm(mpc[c].raw)
                 IN  /\ UNCHANGED << heap, inodes >>
                     /\ IF k \in DOMAIN mdata
                        THEN /\ mlast'.err = "ok"
                             /\ DOMAIN mdata' = DOMAIN mdata \ { k }
                             /\ \A p \in DOMAIN mdata' : mdata'[p] = mdata[p]
                        ELSE /\ mlast'.err = "NotFound"
                             /\ mdata' = mdata ]_vars
    /\ [](\A raw \in MetaSpellings :
            LET k == MetaNorm(raw)
            IN  ParentTable[k] \notin DOMAIN mdata =>
                  /\ k \in DOMAIN mdata =>
                        /\ GetResult(raw, now).err = "ok"
                        /\ GetResult(raw, now).ref = mdata[k]
                  /\ \A m \in Modes :
                        /\ CreateResult(raw, m).err = "NotFound"
                        /\ MkdirResult(raw, m).err = "NotFound"
                  /\ \A up \in MetaSpellings :
                        MetaNorm(up) = ParentTable[k] =>
                            ListResult(up).err = "NotFound")

\* Get("/a/b") returned the entry after "/a" was deleted.
C27_Witness ==
    /\ mlast.op = "Get"
    /\ mlast.err = "ok"
    /\ mlast.key = << SLASH, "a", SLASH, "b" >>
    /\ mlast.ref = mdata[<< SLASH, "a", SLASH, "b" >>]
    /\ << SLASH, "a" >> \notin DOMAIN mdata

\* C28: once Close has been called the sync loop ends; it ends only after
\* the stop signal and by one last Sync; and once it has ended it runs no
\* Sync, so that no step of the loop writes a file afterwards, the bytes of
\* a Save made after the end included.
C28_LoopStopsAfterClose ==
    /\ stopped ~> (bg = "done")
    /\ [][ (bg = "loop" /\ bg' = "done") => (stopped /\ last'.op = "Final") ]_vars
    /\ [][ bg = "done" =>
             /\ bg' = "done"
             /\ ~Tick
             /\ ~FinalSync
             /\ disk' # disk => last'.op \notin { "Tick", "Final" } ]_vars

\* The loop has ended and a Save made since has left its key dirty.
C28_Witness ==
    /\ stopped
    /\ bg = "done"
    /\ last.op = "Save"
    /\ last.err = "ok"
    /\ last.key \in dirty
    /\ last.key \in DOMAIN cache

====
